---- MODULE Spec2Model ----
(***************************************************************************)
(* dolly: a Puppet-like manifest is parsed (Manifest::from_str, pp.rs)     *)
(* into a list of PuppetExpr, and compiled (parse_puppet_manifest, lib.rs) *)
(* into a Plan: a StableDiGraph kept acyclic by petgraph's Acyclic         *)
(* wrapper, which Plan::sorted orders topologically.                       *)
(*                                                                         *)
(* Rust Strings are sequences of one-character strings, so that            *)
(* to_lowercase, trim_matches, format! and string equality are computed.   *)
(* Node indices are 1-based here (petgraph's NodeIndex is 0-based).        *)
(* Option<T> is a sequence of length 0 (None) or 1 (Some).                 *)
(***************************************************************************)
EXTENDS Naturals, Sequences, FiniteSets, TLC

VARIABLES
    pc,             \* where the caller is: start, parsed, nodes, edges, built, sorted, error
    text,           \* the parse tree pest returns for the input (children of `program`)
    manifest,       \* the Manifest handed to parse_puppet_manifest
    err,            \* Option: the Err a function returned
    nodes,          \* node weights of the StableDiGraph, by node index
    resource_nodes, \* HashMap<String, NodeIndex> of parse_puppet_manifest
    edges,          \* edges of the graph, in insertion order
    cur,            \* loop position in parse_puppet_manifest: [ri, rel, fi, ti]
    plan,           \* Option: the Plan parse_puppet_manifest returned
    order,          \* Option: the Result of Plan::sorted
    report,         \* Option: the lines main prints for the sorted plan
    weights         \* Option: the Result of Plan::sorted_weights

vars ==
    <<pc, text, manifest, err, nodes, resource_nodes, edges, cur, plan, order, report,
      weights>>

None == <<>>
Some(x) == <<x>>

Range(s) == {s[i] : i \in 1..Len(s)}

(***************************************************************************)
(* Bounds of the inputs.                                                   *)
(***************************************************************************)
MaxDecls == 2       \* resource declarations in an input text
MaxLitRes == 3      \* Resource expressions of a hand-built Manifest
MaxRels == 3        \* Relation expressions of a hand-built Manifest
MaxRefs == 2        \* references on one side of a hand-built Relation

(***************************************************************************)
(* Strings.                                                                *)
(***************************************************************************)
Lower == <<"a","b","c","d","e","f","g","h","i","j","k","l","m",
           "n","o","p","q","r","s","t","u","v","w","x","y","z">>
Upper == <<"A","B","C","D","E","F","G","H","I","J","K","L","M",
           "N","O","P","Q","R","S","T","U","V","W","X","Y","Z">>

char_to_lowercase(c) ==
    IF \E i \in 1..26 : Upper[i] = c
    THEN Lower[CHOOSE i \in 1..26 : Upper[i] = c]
    ELSE c

char_to_uppercase(c) ==
    IF \E i \in 1..26 : Lower[i] = c
    THEN Upper[CHOOSE i \in 1..26 : Lower[i] = c]
    ELSE c

\* str::to_lowercase
to_lowercase(s) == [i \in 1..Len(s) |-> char_to_lowercase(s[i])]

\* str::trim_matches(c): c removed from both ends, as often as it stands there
RECURSIVE trim_start_matches(_, _)
trim_start_matches(s, c) ==
    IF s # <<>> /\ Head(s) = c THEN trim_start_matches(Tail(s), c) ELSE s

RECURSIVE trim_end_matches(_, _)
trim_end_matches(s, c) ==
    IF s # <<>> /\ s[Len(s)] = c
    THEN trim_end_matches(SubSeq(s, 1, Len(s) - 1), c)
    ELSE s

trim_matches(s, c) == trim_end_matches(trim_start_matches(s, c), c)

\* the type names and titles the inputs are written with
s_file == <<"f","i","l","e">>
s_File == <<"F","i","l","e">>
s_foo_bar == <<"f","o","o",":",":","b","a","r">>
s_Foo_Bar == <<"F","o","o",":",":","B","a","r">>
s_exec == <<"e","x","e","c">>
s_Exec == <<"E","x","e","c">>
s_service == <<"s","e","r","v","i","c","e">>
s_Service == <<"S","e","r","v","i","c","e">>
s_user == <<"u","s","e","r">>
s_User == <<"U","s","e","r">>

(***************************************************************************)
(* PuppetString and ResourceRef (pp.rs).                                   *)
(***************************************************************************)
Literal(s) == [tag |-> "Literal", s |-> s]
Variable(v) == [tag |-> "Variable", s |-> v]

\* Display for StringContent: a literal as it is, a variable as ${name}
StringContent_fmt(c) ==
    IF c.tag = "Literal" THEN c.s ELSE <<"$", "{">> \o c.s \o <<"}">>

\* Display for PuppetString: its segments, one after the other
RECURSIVE PuppetString_fmt(_)
PuppetString_fmt(ps) ==
    IF ps = <<>> THEN <<>>
    ELSE StringContent_fmt(Head(ps)) \o PuppetString_fmt(Tail(ps))

ResourceRef(rtype, title) == [rtype |-> rtype, title |-> title]

\* ResourceRef::id: format!("{}[{}]", rtype, title)
ResourceRef_id(r) == r.rtype \o <<"[">> \o PuppetString_fmt(r.title) \o <<"]">>

\* RelationOp::from_str
RelationOp_from_str(op) ==
    CASE op = "->" -> "Provide"
      [] op = "<-" -> "Require"
      [] op = "~>" -> "Notify"
      [] op = "<~" -> "Subscribe"

(***************************************************************************)
(* The parse tree (what PuppetParser::parse yields for a valid text).      *)
(***************************************************************************)
\* quoted_string > single_quoted: the text between and including the quotes
SingleQuoted(s) == [rule |-> "single_quoted", str |-> <<"'">> \o s \o <<"'">>]
\* quoted_string > double_quoted > double_quoted_content > (variable | plain)*
DoubleQuoted(parts) == [rule |-> "double_quoted", inner |-> parts]
Plain(s) == [rule |-> "plain", str |-> s]
Var(v) == [rule |-> "variable", ident |-> v]

\* resource: rtype, title, and one `attributes` pair per attribute
ResourcePair(rtype, title, attrs) ==
    [rule |-> "resource", rtype |-> rtype, title |-> title, attributes |-> attrs]
\* attribute: attr_name => attr_value
AttributePair(name, value) == [name |-> name, value |-> value]
\* resource_ref: rtype [ quoted_string ]
RefPair(rtype, title) == [rule |-> "resource_ref", rtype |-> rtype, title |-> title]
\* ref_arg: a resource_ref or a ref_list of resource_refs
RefArgSingle(r) == [rule |-> "ref_arg", inner |-> r]
RefArgList(rs) == [rule |-> "ref_arg", inner |-> [rule |-> "ref_list", inner |-> rs]]
RelOp(op) == [rule |-> "rel_op", str |-> op]
\* relation: ref_arg (rel_op ref_arg)+
RelationPair(children) == [rule |-> "relation", inner |-> children]

(***************************************************************************)
(* Manifest::from_str (pp.rs).                                             *)
(***************************************************************************)
RECURSIVE double_quoted_content(_)
double_quoted_content(parts) ==
    IF parts = <<>> THEN <<>>
    ELSE LET p == Head(parts) IN
         <<IF p.rule = "variable" THEN Variable(p.ident) ELSE Literal(p.str)>>
             \o double_quoted_content(Tail(parts))

\* every quoted string read as one literal segment holding the text it displays as
parse_quoted_string_flat(q) ==
    IF q.rule = "single_quoted"
    THEN <<Literal(trim_matches(q.str, "'"))>>
    ELSE <<Literal(PuppetString_fmt(double_quoted_content(q.inner)))>>

parse_quoted_string(q) ==
    IF q.rule = "single_quoted"
    THEN <<Literal(trim_matches(q.str, "'"))>>
    ELSE double_quoted_content(q.inner)

\* Rule::attributes: the name and value of the last attribute pair are pushed
parse_attributes(block) ==
    [name |-> IF block = <<>> THEN <<>> ELSE block[Len(block)].name,
     value |-> IF block = <<>> THEN <<>>
               ELSE parse_quoted_string(block[Len(block)].value)]

\* Rule::resource: the expression pushed for a resource declaration
parse_resource(pair) ==
    [kind |-> "Resource",
     rtype |-> to_lowercase(pair.rtype),
     title |-> parse_quoted_string(pair.title),
     attributes |-> [i \in 1..Len(pair.attributes) |->
                        parse_attributes(pair.attributes[i])]]

\* the key inserted into `resources` for a declaration
resource_key(pair) ==
    ResourceRef(to_lowercase(pair.rtype), parse_quoted_string(pair.title))

\* Rule::resource_ref
parse_resource_ref(r) ==
    ResourceRef(to_lowercase(r.rtype), parse_quoted_string(r.title))

\* Rule::ref_arg: a single reference is pushed, a list replaces current_refs
parse_ref_arg(current_refs, arg) ==
    IF arg.inner.rule = "resource_ref"
    THEN Append(current_refs, parse_resource_ref(arg.inner))
    ELSE [i \in 1..Len(arg.inner.inner) |-> parse_resource_ref(arg.inner.inner[i])]

\* the loop over the children of a relation pair: st = [parts, current_refs]
RECURSIVE relation_parts(_, _)
relation_parts(children, st) ==
    IF children = <<>>
    THEN IF st.current_refs # <<>>
         THEN Append(st.parts, [refs |-> st.current_refs, op |-> ""])
         ELSE st.parts
    ELSE LET c == Head(children) IN
         IF c.rule = "ref_arg"
         THEN relation_parts(Tail(children),
                  [st EXCEPT !.current_refs = parse_ref_arg(@, c)])
         ELSE IF st.current_refs # <<>>
              THEN relation_parts(Tail(children),
                       [parts |-> Append(st.parts,
                                     [refs |-> st.current_refs, op |-> c.str]),
                        current_refs |-> <<>>])
              ELSE relation_parts(Tail(children), st)

\* the relation normalized while parsing: <- and <~ stored as -> and ~> with
\* the two sides exchanged
RECURSIVE consecutive_relations_normalized(_, _)
consecutive_relations_normalized(parts, i) ==
    IF i + 1 > Len(parts) THEN <<>>
    ELSE (IF parts[i].op # ""
          THEN LET rev == parts[i].op \in {"<-", "<~"} IN
               <<[kind |-> "Relation",
                  from |-> IF rev THEN parts[i + 1].refs ELSE parts[i].refs,
                  to |-> IF rev THEN parts[i].refs ELSE parts[i + 1].refs,
                  op |-> IF parts[i].op \in {"->", "<-"} THEN "Provide" ELSE "Notify"]>>
          ELSE <<>>)
         \o consecutive_relations_normalized(parts, i + 1)

\* every group paired with the last one instead of the next one
RECURSIVE consecutive_relations_to_last(_, _)
consecutive_relations_to_last(parts, i) ==
    IF i + 1 > Len(parts) THEN <<>>
    ELSE (IF parts[i].op # ""
          THEN <<[kind |-> "Relation",
                  from |-> parts[i].refs,
                  to |-> parts[Len(parts)].refs,
                  op |-> RelationOp_from_str(parts[i].op)]>>
          ELSE <<>>)
         \o consecutive_relations_to_last(parts, i + 1)

\* "Create relations from consecutive ref_args"
RECURSIVE consecutive_relations(_, _)
consecutive_relations(parts, i) ==
    IF i + 1 > Len(parts) THEN <<>>
    ELSE (IF parts[i].op # ""
          THEN <<[kind |-> "Relation",
                  from |-> parts[i].refs,
                  to |-> parts[i + 1].refs,
                  op |-> RelationOp_from_str(parts[i].op)]>>
          ELSE <<>>)
         \o consecutive_relations(parts, i + 1)

parse_relation(pair) ==
    consecutive_relations(
        relation_parts(pair.inner, [parts |-> <<>>, current_refs |-> <<>>]), 1)

\* the declarations hoisted: a Resource is put before the Relations pushed so far
RECURSIVE first_pass_hoisting(_, _)
first_pass_hoisting(pairs, st) ==
    IF pairs = <<>> THEN st
    ELSE LET pair == Head(pairs) IN
         IF pair.rule = "resource"
         THEN first_pass_hoisting(Tail(pairs),
                  [expressions |->
                       SelectSeq(st.expressions, LAMBDA e : e.kind = "Resource")
                           \o <<parse_resource(pair)>>
                           \o SelectSeq(st.expressions, LAMBDA e : e.kind = "Relation"),
                   resources |-> st.resources \cup {resource_key(pair)}])
         ELSE first_pass_hoisting(Tail(pairs),
                  [st EXCEPT !.expressions = @ \o parse_relation(pair)])

\* first pass: st = [expressions, resources]
RECURSIVE first_pass(_, _)
first_pass(pairs, st) ==
    IF pairs = <<>> THEN st
    ELSE LET pair == Head(pairs) IN
         IF pair.rule = "resource"
         THEN first_pass(Tail(pairs),
                  [expressions |-> Append(st.expressions, parse_resource(pair)),
                   resources |-> st.resources \cup {resource_key(pair)}])
         ELSE first_pass(Tail(pairs),
                  [st EXCEPT !.expressions = @ \o parse_relation(pair)])

\* the to side of every relation scanned before its from side
RECURSIVE scanned_refs_to_first(_)
scanned_refs_to_first(expressions) ==
    IF expressions = <<>> THEN <<>>
    ELSE LET e == Head(expressions) IN
         (IF e.kind = "Relation" THEN e.to \o e.from ELSE <<>>)
             \o scanned_refs_to_first(Tail(expressions))

\* the references of the relations, in the order the second pass meets them
RECURSIVE scanned_refs(_)
scanned_refs(expressions) ==
    IF expressions = <<>> THEN <<>>
    ELSE LET e == Head(expressions) IN
         (IF e.kind = "Relation" THEN e.from \o e.to ELSE <<>>)
             \o scanned_refs(Tail(expressions))

\* a lookup by the id string instead of by the ResourceRef
contains_key_by_id(resources, r) ==
    \E d \in resources : ResourceRef_id(d) = ResourceRef_id(r)

\* is r one of the declared resources (HashMap::contains_key)
contains_key(resources, r) == r \in resources

\* second pass: the first reference that is no key of `resources`, if any
second_pass(expressions, resources) ==
    LET refs == scanned_refs(expressions)
        bad == {i \in 1..Len(refs) : ~contains_key(resources, refs[i])}
    IN  IF bad = {} THEN None
        ELSE LET i == CHOOSE j \in bad : \A k \in bad : j <= k IN
             Some([kind |-> "Undefined resource reference",
                   rtype |-> refs[i].rtype, title |-> refs[i].title])

\* one pass only: every relation is validated against the declarations before it
RECURSIVE one_pass(_, _)
one_pass(pairs, st) ==
    IF pairs = <<>> \/ st.err # None THEN st
    ELSE LET pair == Head(pairs) IN
         IF pair.rule = "resource"
         THEN one_pass(Tail(pairs),
                  [st EXCEPT !.expressions = Append(@, parse_resource(pair)),
                             !.resources = @ \cup {resource_key(pair)}])
         ELSE one_pass(Tail(pairs),
                  [st EXCEPT !.expressions = @ \o parse_relation(pair),
                             !.err = second_pass(parse_relation(pair), st.resources)])

from_str_one_pass(pairs) ==
    LET st == one_pass(pairs, [expressions |-> <<>>, resources |-> {}, err |-> None])
    IN  [manifest |-> IF st.err = None THEN st.expressions ELSE <<>>, err |-> st.err]

\* Manifest::from_str: Ok(Manifest) or Err
from_str(pairs) ==
    LET fp == first_pass(pairs, [expressions |-> <<>>, resources |-> {}])
        e == second_pass(fp.expressions, fp.resources)
    IN  [manifest |-> IF e = None THEN fp.expressions ELSE <<>>, err |-> e]

\* Manifest::resources and Manifest::relations
Manifest_resources(m) == SelectSeq(m, LAMBDA e : e.kind = "Resource")
Manifest_relations(m) == SelectSeq(m, LAMBDA e : e.kind = "Relation")

(***************************************************************************)
(* The resources (resources/*.rs).                                         *)
(***************************************************************************)
\* a type without a constructor is built as a File
Resource_try_from_lenient(expr) ==
    CASE expr.rtype = s_Exec -> Some([struct |-> "Exec", title |-> PuppetString_fmt(expr.title)])
      [] expr.rtype = s_Service -> Some([struct |-> "Service", title |-> PuppetString_fmt(expr.title)])
      [] expr.rtype = s_Foo_Bar -> Some([struct |-> "FooBar", title |-> PuppetString_fmt(expr.title)])
      [] OTHER -> Some([struct |-> "File", title |-> PuppetString_fmt(expr.title)])

\* TryFrom<&PuppetExpr> for Box<dyn Resource>: Option of the resource built
Resource_try_from(expr) ==
    CASE expr.rtype = s_File -> Some([struct |-> "File", title |-> PuppetString_fmt(expr.title)])
      [] expr.rtype = s_Exec -> Some([struct |-> "Exec", title |-> PuppetString_fmt(expr.title)])
      [] expr.rtype = s_Service -> Some([struct |-> "Service", title |-> PuppetString_fmt(expr.title)])
      [] expr.rtype = s_Foo_Bar -> Some([struct |-> "FooBar", title |-> PuppetString_fmt(expr.title)])
      [] OTHER -> None

\* Resource::rtype of File, Exec, Service and FooBar
Resource_rtype(node) ==
    CASE node.struct = "File" -> s_File
      [] node.struct = "Exec" -> s_exec
      [] node.struct = "Service" -> s_service
      [] node.struct = "FooBar" -> s_Foo_Bar

\* Resource::id: format!("{}[{}]", self.rtype(), self.title())
Resource_id(node) == Resource_rtype(node) \o <<"[">> \o node.title \o <<"]">>

\* an insertion that keeps the value already stored under the key
HashMap_insert_keep_first(m, k, v) ==
    [x \in DOMAIN m \cup {k} |-> IF x \in DOMAIN m THEN m[x] ELSE v]

\* HashMap::insert: a later value replaces the one stored under the same key
HashMap_insert(m, k, v) ==
    [x \in DOMAIN m \cup {k} |-> IF x = k THEN v ELSE m[x]]

(***************************************************************************)
(* petgraph, as lib.rs uses it.                                            *)
(***************************************************************************)
Edge(a, b, rel) == [src |-> a, dst |-> b, rel |-> rel]

\* the nodes one edge away from the nodes of S
Successors(es, S) == {es[i].dst : i \in {j \in 1..Len(es) : es[j].src \in S}}

\* the nodes a path of one or more edges leads to from the nodes of S
RECURSIVE ReachFrom(_, _, _)
ReachFrom(es, S, seen) ==
    LET new == Successors(es, S) \ seen IN
    IF new = {} THEN seen ELSE ReachFrom(es, new, seen \cup new)

Reaches(es, a, b) == b \in ReachFrom(es, {a}, {})

\* an insertion that checks nothing, as Graph::add_edge does
would_cycle_unchecked(es, a, b) == FALSE

\* only an edge from a node to itself is refused
would_cycle_self_only(es, a, b) == a = b

\* an edge from a node to itself is let through, only a longer cycle is refused
would_cycle_paths_only(es, a, b) == Reaches(es, b, a)

\* Acyclic::try_add_edge fails on a self loop and on an edge closing a cycle
would_cycle(es, a, b) == a = b \/ Reaches(es, b, a)

\* a rejected edge is dropped and the edges are left as they were, no error raised
try_add_edge_dropping(es, a, b, rel) ==
    IF would_cycle(es, a, b) THEN Some(es) ELSE Some(Append(es, Edge(a, b, rel)))

\* an edge between two nodes that an edge already joins is not inserted again
try_add_edge_deduplicating(es, a, b, rel) ==
    IF would_cycle(es, a, b) THEN None
    ELSE IF \E k \in 1..Len(es) : es[k].src = a /\ es[k].dst = b
         THEN Some(es)
         ELSE Some(Append(es, Edge(a, b, rel)))

\* graph.try_add_edge(f, t, relation): Option of the edges after the insertion
try_add_edge(es, a, b, rel) ==
    IF would_cycle(es, a, b) THEN None ELSE Some(Append(es, Edge(a, b, rel)))

\* Graph::edges(v): the outgoing edges of v, the newest edge first (an edge is
\* linked in at the head of the list of its source's outgoing edges)
RECURSIVE Graph_edges(_, _)
Graph_edges(es, v) ==
    IF es = <<>> THEN <<>>
    ELSE LET e == es[Len(es)]
             rest == Graph_edges(SubSeq(es, 1, Len(es) - 1), v)
         IN  IF e.src = v THEN <<e>> \o rest ELSE rest

\* Graph::neighbors(v): targets of the outgoing edges, the newest edge first
RECURSIVE neighbors(_, _)
neighbors(es, v) ==
    IF es = <<>> THEN <<>>
    ELSE LET e == es[Len(es)]
             rest == neighbors(SubSeq(es, 1, Len(es) - 1), v)
         IN  IF e.src = v THEN <<e.dst>> \o rest ELSE rest

\* the finishing order returned as it is, not reversed
NotReversed(s) == s

Reverse(s) == [i \in 1..Len(s) |-> s[Len(s) + 1 - i]]

\* toposort, the inner while loop: st = [stack, discovered, finished, finish_stack, cycle]
RECURSIVE toposort_visit(_, _)
toposort_visit(es, st) ==
    IF st.stack = <<>> \/ st.cycle THEN st
    ELSE LET nx == st.stack[Len(st.stack)] IN
         IF nx \notin st.discovered
         THEN LET succs == neighbors(es, nx)
                  disc == st.discovered \cup {nx}
              IN  IF nx \in Range(succs)
                  THEN [st EXCEPT !.cycle = TRUE]
                  ELSE toposort_visit(es,
                           [st EXCEPT !.discovered = disc,
                                      !.stack = @ \o SelectSeq(succs,
                                                     LAMBDA s : s \notin disc)])
         ELSE LET popped == [st EXCEPT !.stack = SubSeq(@, 1, Len(@) - 1)] IN
              IF nx \notin st.finished
              THEN toposort_visit(es,
                       [popped EXCEPT !.finished = @ \cup {nx},
                                      !.finish_stack = Append(@, nx)])
              ELSE toposort_visit(es, popped)

\* toposort, the outer loop over node_identifiers().rev(): i = n, n-1, .. 1
RECURSIVE toposort_roots(_, _, _)
toposort_roots(es, i, st) ==
    IF i = 0 \/ st.cycle THEN st
    ELSE IF i \in st.discovered THEN toposort_roots(es, i - 1, st)
         ELSE toposort_roots(es, i - 1,
                  toposort_visit(es, [st EXCEPT !.stack = <<i>>]))

\* toposort, the final check: a node with a predecessor later in the order is a cycle
toposort_checked(es, ord) ==
    \A k \in 1..Len(ord) :
        \A j \in 1..Len(es) :
            es[j].dst = ord[k] => \E i \in 1..k : ord[i] = es[j].src

\* petgraph::algo::toposort: [ok, order]
toposort(n, es) ==
    LET st == toposort_roots(es, n,
                  [stack |-> <<>>, discovered |-> {}, finished |-> {},
                   finish_stack |-> <<>>, cycle |-> FALSE])
        ord == Reverse(st.finish_stack)
    IN  IF st.cycle \/ ~toposort_checked(es, ord)
        THEN [ok |-> FALSE, order |-> <<>>]
        ELSE [ok |-> TRUE, order |-> ord]

\* an ordered map that keeps its keys in rising order, whenever they are inserted
IndexMap_insert_by_key(m, k, v) ==
    LET kept == SelectSeq(m, LAMBDA e : e.key # k) IN
    SelectSeq(kept, LAMBDA e : e.key < k) \o <<[key |-> k, value |-> v]>>
        \o SelectSeq(kept, LAMBDA e : e.key > k)

\* IndexMap::insert: a new key is put at the end, the value of a key already
\* there is replaced at its place
IndexMap_insert(m, k, v) ==
    IF \E i \in 1..Len(m) : m[i].key = k
    THEN [i \in 1..Len(m) |-> IF m[i].key = k THEN [key |-> k, value |-> v] ELSE m[i]]
    ELSE Append(m, [key |-> k, value |-> v])

\* Plan::sorted_weights, `for index in indices`: Err for an index without a weight
RECURSIVE sorted_weights_loop(_, _, _, _)
sorted_weights_loop(ns, indices, i, ws) ==
    IF i > Len(indices) THEN [ok |-> TRUE, weights |-> ws]
    ELSE IF indices[i] \notin 1..Len(ns) THEN [ok |-> FALSE, weights |-> <<>>]
         ELSE sorted_weights_loop(ns, indices, i + 1,
                  IndexMap_insert(ws, indices[i], ns[indices[i]]))

\* Plan::sorted_weights: Err when toposort fails, else the IndexMap of the weights
sorted_weights(p) ==
    LET indices == toposort(Len(p.nodes), p.edges) IN
    IF ~indices.ok THEN [ok |-> FALSE, weights |-> <<>>]
    ELSE sorted_weights_loop(p.nodes, indices.order, 1, <<>>)

(***************************************************************************)
(* parse_puppet_manifest, add_relations, try_add_edges_from_relation.      *)
(***************************************************************************)
\* every operator handled as Provide and Notify are, from and to not swapped
add_relations_unswapped(r) ==
    [froms |-> r.from, tos |-> r.to,
     relation |-> IF r.op \in {"Provide", "Require"} THEN "Provide" ELSE "Notify"]

\* add_relations: the froms, tos and edge weight it calls
\* try_add_edges_from_relation with, for each operator
add_relations(r) ==
    CASE r.op = "Provide" -> [froms |-> r.from, tos |-> r.to, relation |-> "Provide"]
      [] r.op = "Require" -> [froms |-> r.to, tos |-> r.from, relation |-> "Provide"]
      [] r.op = "Notify" -> [froms |-> r.from, tos |-> r.to, relation |-> "Notify"]
      [] r.op = "Subscribe" -> [froms |-> r.to, tos |-> r.from, relation |-> "Notify"]

relation_froms(r) == add_relations(r).froms
relation_tos(r) == add_relations(r).tos
relation_weight(r) == add_relations(r).relation

\* the first relation from index r on whose two loops have a body to run
RECURSIVE next_relation(_, _)
next_relation(rels, r) ==
    IF r > Len(rels) THEN r
    ELSE IF rels[r].from # <<>> /\ rels[r].to # <<>> THEN r
         ELSE next_relation(rels, r + 1)

\* the two loops run as one: both indices advance together
next_position_zip(rels, c) ==
    LET r == rels[c.rel] IN
    IF c.ti < Len(relation_tos(r)) /\ c.fi < Len(relation_froms(r))
    THEN [c EXCEPT !.fi = @ + 1, !.ti = @ + 1]
    ELSE [c EXCEPT !.rel = next_relation(rels, c.rel + 1), !.fi = 1, !.ti = 1]

\* the position after the pair (fi, ti) of relation rel: inner loop, outer loop, next relation
next_position(rels, c) ==
    LET r == rels[c.rel] IN
    IF c.ti < Len(relation_tos(r)) THEN [c EXCEPT !.ti = @ + 1]
    ELSE IF c.fi < Len(relation_froms(r)) THEN [c EXCEPT !.fi = @ + 1, !.ti = 1]
         ELSE [c EXCEPT !.rel = next_relation(rels, c.rel + 1), !.fi = 1, !.ti = 1]

(***************************************************************************)
(* The inputs: texts (as parse trees) and hand-built Manifests.            *)
(***************************************************************************)
RelOps == {"->", "<-", "~>", "<~"}

q_a == DoubleQuoted(<<Plain(<<"a">>)>>)           \* "a"
q_var_x == DoubleQuoted(<<Var(<<"x">>)>>)         \* "${x}"
q_lit_x == SingleQuoted(<<"$", "{", "x", "}">>)   \* '${x}'

\* file { "a": }   foo::bar { "${x}": }   foo::bar { '${x}': }
DeclPairs ==
    {ResourcePair(s_file, q_a, <<>>), ResourcePair(s_foo_bar, q_var_x, <<>>),
     ResourcePair(s_foo_bar, q_lit_x, <<>>)}

\* File["a"]   Foo::Bar["${x}"]
RefPairs == {RefPair(s_File, q_a), RefPair(s_Foo_Bar, q_var_x)}

SeqsUpTo(S, n) == UNION {[1..k -> S] : k \in 0..n}

\* the chains written: the number of references of each group, from left to right
ChainShapes == {<<1, 1>>, <<1, 2>>, <<2, 1>>, <<2, 2>>, <<1, 1, 1>>}

\* the groups of a chain of each shape
ChainGroups ==
    UNION {{gs \in [1..Len(sh) -> SeqsUpTo(RefPairs, 2)] :
               \A i \in 1..Len(sh) : Len(gs[i]) = sh[i]} : sh \in ChainShapes}

\* a group of one reference is written Type["t"], a longer one [Type["t"], ...]
RefArg(g) == IF Len(g) = 1 THEN RefArgSingle(g[1]) ELSE RefArgList(g)

\* ref_arg rel_op ref_arg rel_op ... ref_arg
ChainChildren(gs, ops) ==
    [i \in 1..(2 * Len(gs) - 1) |->
        IF i % 2 = 1 THEN RefArg(gs[(i + 1) \div 2]) ELSE RelOp(ops[i \div 2])]

RelationPairs ==
    UNION {{RelationPair(ChainChildren(gs, ops)) : ops \in [1..(Len(gs) - 1) -> RelOps]} :
              gs \in ChainGroups}

InsertAt(s, p, x) == SubSeq(s, 1, p) \o <<x>> \o SubSeq(s, p + 1, Len(s))

\* sequences of up to n elements of S, no element twice
DistinctSeqs(S, n) == {s \in SeqsUpTo(S, n) : Cardinality(Range(s)) = Len(s)}

n_mode == <<"m", "o", "d", "e">>
n_owner == <<"o", "w", "n", "e", "r">>

\* file { "a": mode => "a", }   file { "a": mode => "a", owner => "${x}", }
\* and the same with the attributes in the other order: the attributes of a
\* declaration are the `attribute` children of its `attributes` pair
AttrDecls ==
    {ResourcePair(s_file, q_a, <<<<AttributePair(n_mode, q_a)>>>>),
     ResourcePair(s_file, q_a,
         <<<<AttributePair(n_mode, q_a), AttributePair(n_owner, q_var_x)>>>>),
     ResourcePair(s_file, q_a,
         <<<<AttributePair(n_owner, q_var_x), AttributePair(n_mode, q_a)>>>>)}

\* a declaration with attributes, alone or after another declaration
AttrTexts == {<<d>> : d \in AttrDecls} \cup {<<e, d>> : e \in DeclPairs, d \in AttrDecls}

\* up to MaxDecls declarations, and at most one relation chain anywhere among
\* them; and the texts with attributes
Texts ==
    LET ds == DistinctSeqs(DeclPairs, MaxDecls) IN
    ds \cup UNION {{InsertAt(d, p, r) : p \in 0..Len(d), r \in RelationPairs} : d \in ds}
       \cup AttrTexts

t_a == <<Literal(<<"a">>)>>
t_b == <<Literal(<<"b">>)>>

ResourceExpr(rtype, title) ==
    [kind |-> "Resource", rtype |-> rtype, title |-> title, attributes |-> <<>>]
RelationExpr(from, to, op) ==
    [kind |-> "Relation", from |-> from, to |-> to, op |-> op]

RelationOps == {"Provide", "Require", "Notify", "Subscribe"}

\* any resources, of registered and unregistered types, with at most one relation
ManifestsOfResources ==
    LET res == {ResourceExpr(s_File, t_a), ResourceExpr(s_File, t_b),
                ResourceExpr(s_Exec, t_a), ResourceExpr(s_User, t_a)}
        refs == {ResourceRef(s_File, t_a), ResourceRef(s_File, t_b),
                 ResourceRef(s_Exec, t_a)}
        rels == {<<>>} \cup {<<RelationExpr(<<f>>, <<t>>, "Provide")>> : f \in refs, t \in refs}
    IN  {rs \o rl : rs \in SeqsUpTo(res, MaxLitRes), rl \in rels}

\* three resources and up to MaxRels relations between one and one of them
ManifestsOfRelations ==
    LET res == <<ResourceExpr(s_File, t_a), ResourceExpr(s_File, t_b),
                 ResourceExpr(s_Foo_Bar, t_a)>>
        refs == {ResourceRef(s_File, t_a), ResourceRef(s_File, t_b),
                 ResourceRef(s_Foo_Bar, t_a)}
        rels == {RelationExpr(<<f>>, <<t>>, "Provide") : f \in refs, t \in refs}
    IN  {res \o rl : rl \in SeqsUpTo(rels, MaxRels)}

\* four resources and one relation of any operator between two lists of them
ManifestsOfLists ==
    LET res == <<ResourceExpr(s_File, t_a), ResourceExpr(s_File, t_b),
                 ResourceExpr(s_Foo_Bar, t_a), ResourceExpr(s_Foo_Bar, t_b)>>
        refs == {ResourceRef(s_File, t_a), ResourceRef(s_File, t_b),
                 ResourceRef(s_Foo_Bar, t_a), ResourceRef(s_Foo_Bar, t_b)}
        lists == DistinctSeqs(refs, MaxRefs) \ {<<>>}
    IN  {Append(res, RelationExpr(f, t, op)) : f \in lists, t \in lists, op \in RelationOps}

\* two resources, a relation with -> and after it a relation of any operator
ManifestsOfMirrors ==
    LET res == <<ResourceExpr(s_File, t_a), ResourceExpr(s_File, t_b)>>
        refs == {ResourceRef(s_File, t_a), ResourceRef(s_File, t_b)}
    IN  {res \o <<RelationExpr(<<f>>, <<t>>, "Provide"), RelationExpr(<<g>>, <<u>>, op)>> :
             f \in refs, t \in refs, g \in refs, u \in refs, op \in RelationOps}

Manifests ==
    ManifestsOfResources \cup ManifestsOfRelations \cup ManifestsOfLists
        \cup ManifestsOfMirrors

(***************************************************************************)
(* The state machine.                                                      *)
(***************************************************************************)
EmptyMap == [x \in {} |-> 0]
StartPosition == [ri |-> 0, rel |-> 1, fi |-> 1, ti |-> 1]

\* a caller holds a text to parse, or a Manifest it built itself (Manifest's
\* and PuppetExpr's fields are pub)
Init ==
    /\ \/ /\ text \in Texts
          /\ manifest = <<>>
          /\ pc = "start"
       \/ /\ text = <<>>
          /\ manifest \in Manifests
          /\ pc = "nodes"
    /\ err = None
    /\ nodes = <<>>
    /\ resource_nodes = EmptyMap
    /\ edges = <<>>
    /\ cur = StartPosition
    /\ plan = None
    /\ order = None
    /\ report = None
    /\ weights = None

\* text.parse::<Manifest>()
FromStr ==
    /\ pc = "start"
    /\ LET r == from_str(text) IN
       /\ manifest' = r.manifest
       /\ err' = r.err
       /\ pc' = IF r.err = None THEN "nodes" ELSE "error"
    /\ UNCHANGED <<text, nodes, resource_nodes, edges, cur, plan, order, report, weights>>

\* parse_puppet_manifest, one turn of `for resource in manifest.resources()`
AddNode ==
    /\ pc = "nodes"
    /\ cur.ri < Len(Manifest_resources(manifest))
    /\ LET resource == Manifest_resources(manifest)[cur.ri + 1]
           resource_node == Resource_try_from(resource)
       IN  IF resource_node = None
           THEN /\ err' = Some([kind |-> "unknown rtype", rtype |-> resource.rtype])
                /\ pc' = "error"
                /\ UNCHANGED <<nodes, resource_nodes, cur>>
           ELSE /\ nodes' = Append(nodes, resource_node[1])
                /\ resource_nodes' = HashMap_insert(resource_nodes,
                                         Resource_id(resource_node[1]), Len(nodes) + 1)
                /\ cur' = [cur EXCEPT !.ri = @ + 1]
                /\ UNCHANGED <<pc, err>>
    /\ UNCHANGED <<text, manifest, edges, plan, order, report, weights>>

\* parse_puppet_manifest, Acyclic::try_from_graph of the graph without edges
TryFromGraph ==
    /\ pc = "nodes"
    /\ cur.ri = Len(Manifest_resources(manifest))
    /\ pc' = "edges"
    /\ cur' = [cur EXCEPT !.rel = next_relation(Manifest_relations(manifest), 1)]
    /\ UNCHANGED <<text, manifest, err, nodes, resource_nodes, edges, plan, order, report, weights>>

\* try_add_edges_from_relation, one turn of `for from in froms { for to in tos`
TryAddEdge ==
    /\ pc = "edges"
    /\ cur.rel <= Len(Manifest_relations(manifest))
    /\ LET rels == Manifest_relations(manifest)
           r == rels[cur.rel]
           from == relation_froms(r)[cur.fi]
           to == relation_tos(r)[cur.ti]
       IN  IF ResourceRef_id(from) \notin DOMAIN resource_nodes
           THEN /\ err' = Some([kind |-> "Unknown resource", id |-> ResourceRef_id(from)])
                /\ pc' = "error"
                /\ UNCHANGED <<edges, cur>>
           ELSE IF ResourceRef_id(to) \notin DOMAIN resource_nodes
           THEN /\ err' = Some([kind |-> "Unknown resource", id |-> ResourceRef_id(to)])
                /\ pc' = "error"
                /\ UNCHANGED <<edges, cur>>
           ELSE LET f == resource_nodes[ResourceRef_id(from)]
                    t == resource_nodes[ResourceRef_id(to)]
                    added == try_add_edge(edges, f, t, relation_weight(r))
                IN  IF added = None
                    THEN /\ err' = Some([kind |-> "Error creating edge in acyclic graph",
                                         from |-> ResourceRef_id(from),
                                         relation |-> relation_weight(r),
                                         to |-> ResourceRef_id(to)])
                         /\ pc' = "error"
                         /\ UNCHANGED <<edges, cur>>
                    ELSE /\ edges' = added[1]
                         /\ cur' = next_position(rels, cur)
                         /\ UNCHANGED <<pc, err>>
    /\ UNCHANGED <<text, manifest, nodes, resource_nodes, plan, order, report, weights>>

\* parse_puppet_manifest: Ok(Plan(acyclic))
ReturnPlan ==
    /\ pc = "edges"
    /\ cur.rel > Len(Manifest_relations(manifest))
    /\ plan' = Some([nodes |-> nodes, edges |-> edges])
    /\ pc' = "built"
    /\ UNCHANGED <<text, manifest, err, nodes, resource_nodes, edges, cur, order, report, weights>>

\* Plan::sorted
Sorted ==
    /\ pc = "built"
    /\ order' = Some(toposort(Len(plan[1].nodes), plan[1].edges))
    /\ pc' = "sorted"
    /\ UNCHANGED <<text, manifest, err, nodes, resource_nodes, edges, cur, plan, report, weights>>

\* main: for every node of the sorted plan, the node and its outgoing edges
Report ==
    /\ pc = "sorted"
    /\ report = None
    /\ order[1].ok
    /\ report' = Some([k \in 1..Len(order[1].order) |->
                      [node |-> order[1].order[k],
                       edges |-> Graph_edges(plan[1].edges, order[1].order[k])]])
    /\ UNCHANGED <<pc, text, manifest, err, nodes, resource_nodes, edges, cur, plan, order,
                   weights>>

\* Plan::sorted_weights, called on a Plan the build returned
SortedWeights ==
    /\ plan # None
    /\ weights = None
    /\ weights' = Some(sorted_weights(plan[1]))
    /\ UNCHANGED <<pc, text, manifest, err, nodes, resource_nodes, edges, cur, plan, order,
                   report>>

Next ==
    \/ FromStr
    \/ AddNode
    \/ TryFromGraph
    \/ TryAddEdge
    \/ ReturnPlan
    \/ Sorted
    \/ Report
    \/ SortedWeights

Spec == Init /\ [][Next]_vars

(***************************************************************************)
(* Notions the properties are stated with.                                 *)
(***************************************************************************)
CycleError == err # None /\ err[1].kind = "Error creating edge in acyclic graph"
UndefinedReferenceError == err # None /\ err[1].kind = "Undefined resource reference"
UnknownTypeError == err # None /\ err[1].kind = "unknown rtype"
UnknownResourceError == err # None /\ err[1].kind = "Unknown resource"

\* the place of node v in the sequence ord
Position(ord, v) == CHOOSE i \in 1..Len(ord) : ord[i] = v

\* the edge the build makes of the pair (from, to) of relation r, as ids map to nodes
NodeOf(ref) == resource_nodes[ResourceRef_id(ref)]

\* the pairs the build attempts for relation r, the outer loop over the froms
RelationPairsOf(r) ==
    LET fs == relation_froms(r)
        ts == relation_tos(r)
    IN  [k \in 1..(Len(fs) * Len(ts)) |->
            <<fs[((k - 1) \div Len(ts)) + 1], ts[((k - 1) % Len(ts)) + 1]>>]

RECURSIVE AttemptedPairs(_)
AttemptedPairs(rels) ==
    IF rels = <<>> THEN <<>>
    ELSE RelationPairsOf(Head(rels)) \o AttemptedPairs(Tail(rels))

\* pair k closes a cycle with the pairs before it (a self loop is a cycle)
ClosesCycle(pairs, k) ==
    LET before == [i \in 1..(k - 1) |->
                      Edge(NodeOf(pairs[i][1]), NodeOf(pairs[i][2]), "Provide")]
    IN  \/ NodeOf(pairs[k][1]) = NodeOf(pairs[k][2])
        \/ Reaches(before, NodeOf(pairs[k][2]), NodeOf(pairs[k][1]))

(***************************************************************************)
(* C1: every Plan that parse_puppet_manifest returns is sorted by          *)
(* Plan::sorted with Ok; the sequence holds every node once, the source of *)
(* every edge stands before its target, and so A stands before B whenever  *)
(* a path leads from A to B.                                               *)
(***************************************************************************)
C1_SortedRespectsEdges ==
    order # None =>
        LET ord == order[1].order
            es == plan[1].edges
            n == Len(plan[1].nodes)
        IN  /\ order[1].ok
            /\ Len(ord) = n
            /\ \A v \in 1..n : \E i \in 1..n : ord[i] = v
            /\ \A k \in 1..Len(es) :
                   Position(ord, es[k].src) < Position(ord, es[k].dst)
            /\ \A a \in 1..n : \A b \in 1..n :
                   Reaches(es, a, b) => Position(ord, a) < Position(ord, b)

\* a plan with a path of two edges has been sorted
C1_Witness ==
    /\ order # None
    /\ \E i \in 1..Len(plan[1].edges) : \E j \in 1..Len(plan[1].edges) :
           /\ plan[1].edges[i].dst = plan[1].edges[j].src
           /\ plan[1].edges[i].src # plan[1].edges[j].dst

(***************************************************************************)
(* C2: an edge that would close a cycle with the edges inserted so far is  *)
(* rejected and the build returns an error: when some pair of the          *)
(* manifest's relations closes a cycle with the pairs before it, no Plan   *)
(* is returned, neither with that edge nor without it.                     *)
(***************************************************************************)
C2_NoPlanOnCycle ==
    /\ CycleError =>
           /\ pc = "error" /\ plan = None /\ order = None
           /\ LET pairs == AttemptedPairs(Manifest_relations(manifest)) IN
              ClosesCycle(pairs, Len(edges) + 1)
    /\ plan # None =>
           LET pairs == AttemptedPairs(Manifest_relations(manifest)) IN
           /\ \A k \in 1..Len(pairs) : ~ClosesCycle(pairs, k)
           /\ \A v \in 1..Len(plan[1].nodes) : ~Reaches(plan[1].edges, v, v)

\* A -> B and B -> C are in the graph and the third insertion, C -> A, failed
C2_Witness ==
    /\ CycleError
    /\ Len(edges) = 2
    /\ edges[1].dst = edges[2].src
    /\ Cardinality({edges[1].src, edges[1].dst, edges[2].dst}) = 3
    /\ Len(Manifest_relations(manifest)) = 3

(***************************************************************************)
(* What a text says, read off its parse tree.                              *)
(***************************************************************************)
TextResources(t) == SelectSeq(t, LAMBDA pair : pair.rule = "resource")
TextRelations(t) == SelectSeq(t, LAMBDA pair : pair.rule = "relation")

\* the references written in group i of a relation chain, and its i-th operator
ChainLength(pair) == (Len(pair.inner) + 1) \div 2
ChainGroup(pair, i) ==
    LET arg == pair.inner[2 * i - 1].inner IN
    IF arg.rule = "resource_ref" THEN <<arg>> ELSE arg.inner
ChainOp(pair, i) == pair.inner[2 * i].str

\* every reference written on a side of a relation of the text
WrittenRefs(t) ==
    UNION {UNION {Range(ChainGroup(TextRelations(t)[c], i)) :
                     i \in 1..ChainLength(TextRelations(t)[c])} :
              c \in 1..Len(TextRelations(t))}

\* the declared resources: as ResourceRef values, and as id strings
DeclaredRefs(t) == {resource_key(d) : d \in Range(TextResources(t))}
DeclaredIds(t) == {ResourceRef_id(d) : d \in DeclaredRefs(t)}

\* from_str has returned for the text
Parsed == text # <<>> /\ pc # "start"

(***************************************************************************)
(* C3, as claimed: from_str fails with the undefined-reference error iff   *)
(* the id of some reference of a relation is the id of no declared         *)
(* resource.                                                               *)
(***************************************************************************)
C3_UndefinedIffIdAbsent ==
    Parsed =>
        (UndefinedReferenceError <=>
            \E r \in WrittenRefs(text) :
                ResourceRef_id(parse_resource_ref(r)) \notin DeclaredIds(text))

(***************************************************************************)
(* C3, amended: from_str fails with the undefined-reference error iff some *)
(* reference of a relation equals, as a ResourceRef (stored type and the   *)
(* title's segments), no declared resource; a reference whose id string    *)
(* is a declaration's but whose title has other segments is undefined      *)
(* too. Otherwise the Manifest is returned, with every declaration in it.  *)
(***************************************************************************)
C3_UndefinedIffRefAbsent ==
    Parsed =>
        /\ UndefinedReferenceError <=>
               \E r \in WrittenRefs(text) : parse_resource_ref(r) \notin DeclaredRefs(text)
        /\ UndefinedReferenceError => pc = "error" /\ manifest = <<>>
        /\ ~UndefinedReferenceError =>
               Len(Manifest_resources(manifest)) = Len(TextResources(text))

\* from_str failed on a reference whose id string is the id of a declaration
C3_Witness ==
    /\ Parsed
    /\ UndefinedReferenceError
    /\ ResourceRef_id(ResourceRef(err[1].rtype, err[1].title)) \in DeclaredIds(text)

(***************************************************************************)
(* C4: foo::bar declared with a title and Foo::Bar["title"] referenced are *)
(* one id in both phases: from_str does not report the reference as        *)
(* undefined, and parse_puppet_manifest builds the node of the declaration *)
(* and finds it under the id of the reference.                             *)
(***************************************************************************)
C4_SameIdInBothPhases ==
    LET decl == ResourcePair(s_foo_bar, q_var_x, <<>>)
        ref == RefPair(s_Foo_Bar, q_var_x)
        id == ResourceRef_id(parse_resource_ref(ref))
    IN  (Parsed /\ decl \in Range(text) /\ ref \in WrittenRefs(text)) =>
            /\ ~(UndefinedReferenceError
                   /\ ResourceRef(err[1].rtype, err[1].title) = parse_resource_ref(ref))
            /\ ~(UnknownTypeError /\ err[1].rtype = to_lowercase(s_foo_bar))
            /\ ~(UnknownResourceError /\ err[1].id = id)
            /\ pc \in {"edges", "built", "sorted"} =>
                   /\ id \in DOMAIN resource_nodes
                   /\ nodes[resource_nodes[id]].struct = "FooBar"

(***************************************************************************)
(* C5: the rtype stored in every parsed Resource and ResourceRef is the    *)
(* canonical form of the type name written: split at ::, the first         *)
(* character of each segment in upper case, joined with ::.                *)
(***************************************************************************)
canonical_type_name(s) ==
    [i \in 1..Len(s) |->
        IF i = 1 \/ (i >= 3 /\ s[i - 1] = ":" /\ s[i - 2] = ":")
        THEN char_to_uppercase(s[i])
        ELSE s[i]]

C5_StoredTypeIsCanonical ==
    (Parsed /\ ~UndefinedReferenceError) =>
        /\ \A i \in 1..Len(TextResources(text)) :
               Manifest_resources(manifest)[i].rtype
                   = canonical_type_name(TextResources(text)[i].rtype)
        /\ \A e \in Range(Manifest_relations(manifest)) :
               \A r \in Range(e.from \o e.to) :
                   \E w \in WrittenRefs(text) :
                       /\ r.rtype = canonical_type_name(w.rtype)
                       /\ r.title = parse_quoted_string(w.title)

(***************************************************************************)
(* C6: for a manifest whose declarations all have registered types and     *)
(* whose relations are acyclic, parse_puppet_manifest returns a Plan with  *)
(* exactly one node for each declaration.                                  *)
(***************************************************************************)
Registry == {s_File, s_Exec, s_Service, s_Foo_Bar}

CanonicalId(rtype, title) ==
    canonical_type_name(rtype) \o <<"[">> \o PuppetString_fmt(title) \o <<"]">>

\* the relations of m as edges between canonical ids
IdEdges(m) ==
    LET pairs == AttemptedPairs(Manifest_relations(m)) IN
    [k \in 1..Len(pairs) |->
        Edge(CanonicalId(pairs[k][1].rtype, pairs[k][1].title),
             CanonicalId(pairs[k][2].rtype, pairs[k][2].title), "Provide")]

WellFormed(m) ==
    /\ \A e \in Range(Manifest_resources(m)) : canonical_type_name(e.rtype) \in Registry
    /\ \A k \in 1..Len(IdEdges(m)) :
           \A id \in {IdEdges(m)[k].src, IdEdges(m)[k].dst} :
               /\ \E e \in Range(Manifest_resources(m)) : id = CanonicalId(e.rtype, e.title)
               /\ ~Reaches(IdEdges(m), id, id)

C6_OneNodePerDeclaration ==
    (pc \in {"error", "built", "sorted"} /\ ~UndefinedReferenceError /\ WellFormed(manifest)) =>
        /\ plan # None
        /\ Len(plan[1].nodes) = Len(Manifest_resources(manifest))

(***************************************************************************)
(* The edges of the relations the build has gone through.                  *)
(***************************************************************************)
\* the relations whose two loops have run to their end
RelationsDone ==
    IF pc \in {"built", "sorted"} THEN Len(Manifest_relations(manifest))
    ELSE IF pc \in {"edges", "error"} /\ ~UnknownTypeError /\ ~UndefinedReferenceError
         THEN cur.rel - 1
         ELSE 0

\* the number of edges inserted before those of relation j
RECURSIVE EdgesBefore(_, _)
EdgesBefore(rels, j) ==
    IF j <= 1 THEN 0
    ELSE EdgesBefore(rels, j - 1) + Len(rels[j - 1].from) * Len(rels[j - 1].to)

\* the edges inserted for relation j, in the order of their insertion
EdgesOfRelation(rels, j) ==
    LET last == EdgesBefore(rels, j + 1) IN
    SubSeq(edges, EdgesBefore(rels, j) + 1, IF last <= Len(edges) THEN last ELSE Len(edges))

(***************************************************************************)
(* C7: a relation with m references on its from side and n on its to side *)
(* is one Relation statement of the Manifest, and the build inserts for it *)
(* exactly the m*n edges of the Cartesian product, every from reference    *)
(* with every to reference, all of one kind.                               *)
(***************************************************************************)
C7_CartesianProduct ==
    /\ \A j \in 1..RelationsDone :
           LET rels == Manifest_relations(manifest)
               es == EdgesOfRelation(rels, j)
               pairs == RelationPairsOf(rels[j])
           IN  /\ Len(es) = Len(rels[j].from) * Len(rels[j].to)
               /\ \A k \in 1..Len(es) :
                      es[k] = Edge(NodeOf(pairs[k][1]), NodeOf(pairs[k][2]),
                                   IF rels[j].op \in {"Provide", "Require"}
                                   THEN "Provide" ELSE "Notify")
               /\ \A f \in Range(rels[j].from) : \A t \in Range(rels[j].to) :
                      \E k \in 1..Len(es) :
                          {es[k].src, es[k].dst} = {NodeOf(f), NodeOf(t)}
    /\ (Parsed /\ ~UndefinedReferenceError) =>
           \A c \in 1..Len(TextRelations(text)) :
               ChainLength(TextRelations(text)[c]) = 2 =>
                   /\ Len(Manifest_relations(manifest)) = 1
                   /\ Len(Manifest_relations(manifest)[1].from)
                          = Len(ChainGroup(TextRelations(text)[c], 1))
                   /\ Len(Manifest_relations(manifest)[1].to)
                          = Len(ChainGroup(TextRelations(text)[c], 2))

\* [A, B] -> [C, D] has given the plan its four Provide edges A->C, A->D, B->C, B->D
C7_Witness ==
    /\ plan # None
    /\ Len(Manifest_relations(manifest)) = 1
    /\ Manifest_relations(manifest)[1].op = "Provide"
    /\ Len(plan[1].edges) = 4
    /\ [k \in 1..4 |-> <<plan[1].edges[k].src, plan[1].edges[k].dst>>]
           = <<<<1, 3>>, <<1, 4>>, <<2, 3>>, <<2, 4>>>>

(***************************************************************************)
(* C8: X <- Y inserts the edges that Y -> X inserts, and X <~ Y those that *)
(* Y ~> X inserts: for every relation, the edges lead from the             *)
(* resources to apply first to their dependents, with the kind Provide     *)
(* for -> and <-, and Notify for ~> and <~; there is no other kind.        *)
(***************************************************************************)
\* the relation with -> or ~> that says the same as r
Mirrored(r) ==
    CASE r.op = "Require" -> RelationExpr(r.to, r.from, "Provide")
      [] r.op = "Subscribe" -> RelationExpr(r.to, r.from, "Notify")
      [] OTHER -> r

\* the edges of a relation with -> or ~>
ForwardEdges(r) ==
    {Edge(NodeOf(x), NodeOf(y), r.op) : x \in Range(r.from), y \in Range(r.to)}

C8_OperatorMirroring ==
    /\ \A j \in 1..RelationsDone :
           LET rels == Manifest_relations(manifest) IN
           Range(EdgesOfRelation(rels, j)) = ForwardEdges(Mirrored(rels[j]))
    /\ \A k \in 1..Len(edges) : edges[k].rel \in {"Provide", "Notify"}

\* a plan was built from a relation X <~ Y with an edge from Y to X
C8_Witness ==
    /\ plan # None
    /\ Len(Manifest_relations(manifest)) = 1
    /\ Manifest_relations(manifest)[1].op = "Subscribe"
    /\ \E k \in 1..Len(plan[1].edges) :
           /\ plan[1].edges[k].src = NodeOf(Manifest_relations(manifest)[1].to[1])
           /\ plan[1].edges[k].dst = NodeOf(Manifest_relations(manifest)[1].from[1])
           /\ plan[1].edges[k].rel = "Notify"

(***************************************************************************)
(* C9: a chain of k groups and k-1 operators is parsed into exactly k-1    *)
(* Relation statements, the i-th from group i to group i+1 with the i-th   *)
(* operator; no statement links groups that are not neighbours, and every  *)
(* edge of the graph joins the two sides of one statement.                 *)
(***************************************************************************)
\* the statements of one chain
ChainStatements(pair) ==
    [i \in 1..(ChainLength(pair) - 1) |->
        RelationExpr(
            [n \in 1..Len(ChainGroup(pair, i)) |->
                parse_resource_ref(ChainGroup(pair, i)[n])],
            [n \in 1..Len(ChainGroup(pair, i + 1)) |->
                parse_resource_ref(ChainGroup(pair, i + 1)[n])],
            CASE ChainOp(pair, i) = "->" -> "Provide"
              [] ChainOp(pair, i) = "<-" -> "Require"
              [] ChainOp(pair, i) = "~>" -> "Notify"
              [] ChainOp(pair, i) = "<~" -> "Subscribe")]

RECURSIVE StatementsOfChains(_)
StatementsOfChains(pairs) ==
    IF pairs = <<>> THEN <<>>
    ELSE ChainStatements(Head(pairs)) \o StatementsOfChains(Tail(pairs))

C9_ChainDecomposition ==
    /\ (Parsed /\ ~UndefinedReferenceError) =>
           Manifest_relations(manifest) = StatementsOfChains(TextRelations(text))
    /\ \A k \in 1..Len(edges) :
           \E r \in Range(Manifest_relations(manifest)) :
               \E x \in Range(r.from) : \E y \in Range(r.to) :
                   {edges[k].src, edges[k].dst} = {NodeOf(x), NodeOf(y)}

\* A -> B ~> C was parsed into (A, B, Provide) and (B, C, Notify)
C9_Witness ==
    /\ Parsed
    /\ pc = "nodes"
    /\ Len(TextRelations(text)) = 1
    /\ ChainLength(TextRelations(text)[1]) = 3
    /\ Len(Manifest_relations(manifest)) = 2
    /\ Manifest_relations(manifest)[1].op = "Provide"
    /\ Manifest_relations(manifest)[2].op = "Notify"
    /\ Manifest_relations(manifest)[1].to = Manifest_relations(manifest)[2].from
    /\ Manifest_relations(manifest)[1].from # Manifest_relations(manifest)[2].to

(***************************************************************************)
(* C10: when a Resource of the manifest has a type that is not in the      *)
(* registry File, Exec, Service, Foo::Bar, parse_puppet_manifest returns   *)
(* the unknown-type error naming the first such type, and no Plan,         *)
(* whatever the other declarations and the relations are.                  *)
(***************************************************************************)
Unregistered(m) ==
    SelectSeq(Manifest_resources(m), LAMBDA e : e.rtype \notin Registry)

C10_UnknownTypeAborts ==
    Unregistered(manifest) # <<>> =>
        /\ plan = None
        /\ pc \in {"nodes", "error"}
        /\ pc = "error" =>
               /\ UnknownTypeError
               /\ err[1].rtype = Unregistered(manifest)[1].rtype
        /\ Len(nodes) < Len(Manifest_resources(manifest))

\* the build failed on User, after the node of another declaration was added
C10_Witness ==
    /\ UnknownTypeError
    /\ err[1].rtype = s_User
    /\ Len(nodes) >= 1
    /\ Manifest_relations(manifest) # <<>>

(***************************************************************************)
(* C11: a relation may stand in the text before the declaration of a       *)
(* resource it references: the declarations of the whole text are          *)
(* collected before any reference is validated, so from_str reports no     *)
(* reference as undefined that is declared anywhere in the text, and       *)
(* returns the Manifest with the expressions in the order of the text.     *)
(***************************************************************************)
\* the references of the relation at place p of the text, as from_str stores them
RefsAt(t, p) ==
    UNION {{parse_resource_ref(r) : r \in Range(ChainGroup(t[p], i))} :
              i \in 1..ChainLength(t[p])}

\* the relation at place p references a resource declared at a later place
ReferencesLater(t, p) ==
    /\ t[p].rule = "relation"
    /\ \E q \in (p + 1)..Len(t) :
           t[q].rule = "resource" /\ resource_key(t[q]) \in RefsAt(t, p)

C11_ForwardReferenceAccepted ==
    Parsed =>
        /\ ((\E p \in 1..Len(text) : ReferencesLater(text, p))
              /\ \A p \in 1..Len(text) :
                     text[p].rule = "relation" => RefsAt(text, p) \subseteq DeclaredRefs(text)) =>
               /\ ~UndefinedReferenceError
               /\ pc # "start"
               /\ err = None => Len(manifest) >= Len(text)
        /\ UndefinedReferenceError =>
               ResourceRef(err[1].rtype, err[1].title) \notin DeclaredRefs(text)

\* a text whose relation references a resource declared after it was accepted
C11_Witness ==
    /\ Parsed
    /\ pc = "nodes"
    /\ \E p \in 1..Len(text) : ReferencesLater(text, p)
    /\ Manifest_relations(manifest) # <<>>
    /\ manifest[1].kind = "Relation"

(***************************************************************************)
(* Display for Manifest and PuppetExpr, read back by the parser.           *)
(***************************************************************************)
\* Display for PuppetExpr::Resource writes the type as stored, then the title
\* between single quotes whatever its segments are: the pair the parser
\* reads that text as (a resource without attributes)
PuppetExpr_fmt_resource(e) ==
    ResourcePair(e.rtype, SingleQuoted(PuppetString_fmt(e.title)), <<>>)

\* Display for Manifest: every expression on a line of its own, in order
Manifest_fmt(m) == [i \in 1..Len(m) |-> PuppetExpr_fmt_resource(m[i])]

\* a Manifest of resources without attributes
OnlyPlainResources(m) ==
    \A i \in 1..Len(m) : m[i].kind = "Resource" /\ m[i].attributes = <<>>

(***************************************************************************)
(* C12: formatting a Manifest that from_str returned with Display and      *)
(* parsing that text again succeeds and yields a Manifest equal to the     *)
(* original, expression by expression, titles segment by segment. Stated   *)
(* here for the manifests of resources without attributes.                 *)
(***************************************************************************)
C12_DisplayRoundTrip ==
    (Parsed /\ err = None /\ OnlyPlainResources(manifest)) =>
        from_str(Manifest_fmt(manifest)) = [manifest |-> manifest, err |-> None]

(***************************************************************************)
(* C13: when every reference of the Manifest is the type and title of one  *)
(* of its declarations (what the validation of from_str establishes), the  *)
(* build never fails with the unknown-resource error: every node is        *)
(* recorded under the id of the references to its declaration, and its     *)
(* rtype() and title() are the declaration's canonical type and title.     *)
(***************************************************************************)
\* every reference of m equals, as a ResourceRef, a declaration of m
Validated(m) ==
    \A r \in Range(scanned_refs(m)) :
        \E e \in Range(Manifest_resources(m)) : r = ResourceRef(e.rtype, e.title)

WrittenSegments(q) ==
    IF q.rule = "single_quoted"
    THEN <<[tag |-> "Literal", s |-> SubSeq(q.str, 2, Len(q.str) - 1)]>>
    ELSE [i \in 1..Len(q.inner) |->
             IF q.inner[i].rule = "variable"
             THEN [tag |-> "Variable", s |-> q.inner[i].ident]
             ELSE [tag |-> "Literal", s |-> q.inner[i].str]]

\* the declaration d and the reference r are written with the same type name
\* (letter case apart) and with titles of the same segments
SameSegments(d, r) ==
    /\ to_lowercase(d.rtype) = to_lowercase(r.rtype)
    /\ WrittenSegments(d.title) = WrittenSegments(r.title)

(***************************************************************************)
(* C14, as claimed: a reference is accepted by from_str exactly when some  *)
(* declaration has its id string, also when the two titles have other      *)
(* segments that display alike: no reference whose id is a declaration's   *)
(* is reported undefined.                                                  *)
(***************************************************************************)
C14_AcceptedIffSameId ==
    (Parsed /\ UndefinedReferenceError) =>
        ResourceRef_id(ResourceRef(err[1].rtype, err[1].title)) \notin DeclaredIds(text)

(***************************************************************************)
(* C14, amended: a reference is accepted by from_str exactly when some     *)
(* declaration has its type and a title of the same segments; when all     *)
(* references are accepted each has such a declaration, and a reported     *)
(* reference has none, whether or not a declaration displays as it does.   *)
(***************************************************************************)
C14_AcceptedIffSameSegments ==
    Parsed =>
        /\ err = None =>
               \A r \in WrittenRefs(text) :
                   \E d \in Range(TextResources(text)) : SameSegments(d, r)
        /\ UndefinedReferenceError =>
               \E r \in WrittenRefs(text) :
                   /\ parse_resource_ref(r) = ResourceRef(err[1].rtype, err[1].title)
                   /\ \A d \in Range(TextResources(text)) : ~SameSegments(d, r)

\* two declarations display as one id, '${x}' and "${x}"; the reference "${x}"
\* was matched to the second and the text accepted
C14_Witness ==
    /\ Parsed
    /\ err = None
    /\ Cardinality(DeclaredRefs(text)) = 2
    /\ Cardinality(DeclaredIds(text)) = 1
    /\ TextRelations(text) # <<>>

(***************************************************************************)
(* C15: a declaration written with n attributes is parsed into a Resource  *)
(* whose attributes are exactly those n, in the order written, each with   *)
(* the name and the value written; none for an empty attribute block.      *)
(***************************************************************************)
\* the attributes a declaration is written with, in order
RECURSIVE WrittenAttributes(_)
WrittenAttributes(blocks) ==
    IF blocks = <<>> THEN <<>>
    ELSE [i \in 1..Len(Head(blocks)) |->
             [name |-> Head(blocks)[i].name,
              value |-> WrittenSegments(Head(blocks)[i].value)]]
         \o WrittenAttributes(Tail(blocks))

C15_AttributesKept ==
    (Parsed /\ err = None) =>
        \A i \in 1..Len(TextResources(text)) :
            Manifest_resources(manifest)[i].attributes
                = WrittenAttributes(TextResources(text)[i].attributes)

(***************************************************************************)
(* C16: two declarations of one id do not make the build fail: both nodes  *)
(* are added, the id is mapped to the node of the later declaration, every *)
(* edge is attached to the latest node of its id, and a node whose id is   *)
(* declared again later has no edge.                                       *)
(***************************************************************************)
\* node i has the id of a node added after it
Superseded(i) ==
    \E j \in (i + 1)..Len(nodes) : Resource_id(nodes[j]) = Resource_id(nodes[i])

C16_LaterDeclarationWins ==
    /\ pc \in {"nodes", "edges", "built", "sorted"} => Len(nodes) = cur.ri
    /\ plan # None => Len(plan[1].nodes) = Len(Manifest_resources(manifest))
    /\ \A i \in 1..Len(nodes) :
           /\ Resource_id(nodes[i]) \in DOMAIN resource_nodes
           /\ resource_nodes[Resource_id(nodes[i])] = i <=> ~Superseded(i)
           /\ Superseded(i) =>
                  \A k \in 1..Len(edges) : edges[k].src # i /\ edges[k].dst # i
    /\ UnknownTypeError => Unregistered(manifest) # <<>>
    /\ UnknownResourceError =>
           \A i \in 1..Len(nodes) : Resource_id(nodes[i]) # err[1].id

\* File a was declared twice and File b once: the plan has three nodes, and the
\* edge of File[a] -> File[b] leaves the second node, not the first
C16_Witness ==
    /\ plan # None
    /\ Len(plan[1].nodes) = 3
    /\ Resource_id(nodes[1]) = Resource_id(nodes[2])
    /\ plan[1].edges = <<Edge(2, 3, "Provide")>>

(***************************************************************************)
(* The plan and its order as functions of the Manifest alone.              *)
(***************************************************************************)
\* the place of the last declaration of the manifest whose node has this id
DeclIndex(m, id) ==
    LET res == Manifest_resources(m)
        has(i) == Resource_id(Resource_try_from(res[i])[1]) = id
    IN  CHOOSE i \in 1..Len(res) : has(i) /\ \A j \in (i + 1)..Len(res) : ~has(j)

\* the edges of the relations from place j on, in the order of the two loops
RECURSIVE ManifestEdges(_, _)
ManifestEdges(m, j) ==
    LET rels == Manifest_relations(m) IN
    IF j > Len(rels) THEN <<>>
    ELSE LET pairs == RelationPairsOf(rels[j]) IN
         [k \in 1..Len(pairs) |->
             Edge(DeclIndex(m, ResourceRef_id(pairs[k][1])),
                  DeclIndex(m, ResourceRef_id(pairs[k][2])),
                  IF rels[j].op \in {"Provide", "Require"} THEN "Provide" ELSE "Notify")]
         \o ManifestEdges(m, j + 1)

InsertedFrom(es, v) == SelectSeq(es, LAMBDA e : e.src = v)

C18_OutgoingInInsertionOrder ==
    report # None =>
        \A k \in 1..Len(report[1]) :
            report[1][k].edges = InsertedFrom(plan[1].edges, report[1][k].node)

(***************************************************************************)
(* C19: the cycle error names the two ids of the edge whose insertion was  *)
(* rejected, the source first (for <- and <~ the source is the reference   *)
(* written on the right), and that edge is the first one, in the order of  *)
(* the relations and of the from-major product of their sides, to close a  *)
(* cycle with the edges before it.                                         *)
(***************************************************************************)
\* the pairs (source, target) of the relations, sources and targets as the
\* operator directs them, in the order of the text and from-major
RECURSIVE DirectedPairs(_)
DirectedPairs(rels) ==
    IF rels = <<>> THEN <<>>
    ELSE LET r == Mirrored(Head(rels)) IN
         [k \in 1..(Len(r.from) * Len(r.to)) |->
             <<r.from[((k - 1) \div Len(r.to)) + 1], r.to[((k - 1) % Len(r.to)) + 1]>>]
         \o DirectedPairs(Tail(rels))

C19_CycleErrorNamesFirstEdge ==
    CycleError =>
        LET pairs == DirectedPairs(Manifest_relations(manifest))
            k == Len(edges) + 1
        IN  /\ k <= Len(pairs)
            /\ err[1].from = ResourceRef_id(pairs[k][1])
            /\ err[1].to = ResourceRef_id(pairs[k][2])
            /\ ClosesCycle(pairs, k)
            /\ \A j \in 1..(k - 1) : ~ClosesCycle(pairs, j)
            /\ \A j \in 1..(k - 1) :
                   edges[j].src = NodeOf(pairs[j][1]) /\ edges[j].dst = NodeOf(pairs[j][2])

\* after A -> B, the relation A <- B was rejected: the error names B, then A
C19_Witness ==
    /\ CycleError
    /\ Len(Manifest_relations(manifest)) = 2
    /\ Manifest_relations(manifest)[2].op = "Require"
    /\ err[1].from = ResourceRef_id(Manifest_relations(manifest)[2].to[1])
    /\ err[1].to = ResourceRef_id(Manifest_relations(manifest)[2].from[1])
    /\ err[1].from # err[1].to

(***************************************************************************)
(* C20: when several references are undefined, the error of from_str names *)
(* the first one in the order the relations are written, the references of *)
(* the from side (the left one) before those of the to side; a declaration *)
(* anywhere in the text defines, and no Manifest is returned.              *)
(***************************************************************************)
\* the references of one chain from group i on, from left to right
RECURSIVE ChainRefSeq(_, _)
ChainRefSeq(pair, i) ==
    IF i > ChainLength(pair) THEN <<>>
    ELSE ChainGroup(pair, i) \o ChainRefSeq(pair, i + 1)

\* the references of the relations of a text, in the order they are written
RECURSIVE WrittenRefSeq(_)
WrittenRefSeq(rels) ==
    IF rels = <<>> THEN <<>>
    ELSE ChainRefSeq(Head(rels), 1) \o WrittenRefSeq(Tail(rels))

\* the places of the written references that no declaration of the text defines
UndefinedPlaces(t) ==
    LET seq == WrittenRefSeq(TextRelations(t)) IN
    {i \in 1..Len(seq) : \A d \in Range(TextResources(t)) : ~SameSegments(d, seq[i])}

C20_FirstUndefinedIsNamed ==
    (Parsed /\ UndefinedReferenceError) =>
        LET seq == WrittenRefSeq(TextRelations(text))
            bad == UndefinedPlaces(text)
        IN  /\ bad # {}
            /\ LET i == CHOOSE j \in bad : \A k \in bad : j <= k IN
                /\ err[1].rtype = to_lowercase(seq[i].rtype)
                /\ err[1].title = WrittenSegments(seq[i].title)
            /\ manifest = <<>>
            /\ pc = "error"
            /\ nodes = <<>> /\ plan = None

\* A <- B with neither declared: two references are undefined and the one
\* named is A, written on the left
C20_Witness ==
    /\ Parsed
    /\ UndefinedReferenceError
    /\ LET seq == WrittenRefSeq(TextRelations(text)) IN
       /\ Len(seq) = 2
       /\ UndefinedPlaces(text) = {1, 2}
       /\ seq[1] # seq[2]
       /\ ChainOp(TextRelations(text)[1], 1) = "<-"
       /\ err[1].rtype = to_lowercase(seq[1].rtype)
       /\ err[1].title = WrittenSegments(seq[1].title)

(***************************************************************************)
(* A reference as stored, against the reference as written.                *)
(***************************************************************************)
\* the stored references are the written ones, one by one and in their order
StoredAsWritten(refs, written) ==
    /\ Len(refs) = Len(written)
    /\ \A n \in 1..Len(refs) :
           /\ refs[n].rtype = to_lowercase(written[n].rtype)
           /\ refs[n].title = WrittenSegments(written[n].title)

\* the number of statements that the chains before chain c are parsed into
RECURSIVE StatementsBefore(_, _)
StatementsBefore(rels, c) ==
    IF c <= 1 THEN 0
    ELSE StatementsBefore(rels, c - 1) + ChainLength(rels[c - 1]) - 1

(***************************************************************************)
(* C21: the Manifest stores a reverse relation as it is written: for       *)
(* X <~ Y (X <- Y) the Relation has from = [X], to = [Y] and the operator  *)
(* Subscribe (Require). The two sides are exchanged only when the edges    *)
(* are created, and once: every edge of such a relation leads from a       *)
(* reference of its to side to a reference of its from side, to-major.     *)
(***************************************************************************)
C21_ReverseStoredAsWritten ==
    /\ (Parsed /\ err = None) =>
           \A c \in 1..Len(TextRelations(text)) :
               LET pair == TextRelations(text)[c]
                   base == StatementsBefore(TextRelations(text), c)
               IN  \A i \in 1..(ChainLength(pair) - 1) :
                       ChainOp(pair, i) \in {"<-", "<~"} =>
                           LET e == Manifest_relations(manifest)[base + i] IN
                           /\ StoredAsWritten(e.from, ChainGroup(pair, i))
                           /\ StoredAsWritten(e.to, ChainGroup(pair, i + 1))
                           /\ e.op = IF ChainOp(pair, i) = "<-"
                                     THEN "Require" ELSE "Subscribe"
    /\ \A j \in 1..RelationsDone :
           LET rels == Manifest_relations(manifest)
               r == rels[j]
               es == EdgesOfRelation(rels, j)
           IN  r.op \in {"Require", "Subscribe"} =>
                   /\ Len(es) = Len(r.to) * Len(r.from)
                   /\ \A k \in 1..Len(es) :
                          /\ es[k].src = NodeOf(r.to[((k - 1) \div Len(r.from)) + 1])
                          /\ es[k].dst = NodeOf(r.from[((k - 1) % Len(r.from)) + 1])
                          /\ es[k].rel = IF r.op = "Require" THEN "Provide" ELSE "Notify"

\* File["a"] <~ Foo::Bar["${x}"] was parsed: from is the File, to the Foo::Bar,
\* the operator Subscribe
C21_Witness ==
    /\ Parsed
    /\ pc = "nodes"
    /\ Len(TextRelations(text)) = 1
    /\ ChainLength(TextRelations(text)[1]) = 2
    /\ ChainOp(TextRelations(text)[1], 1) = "<~"
    /\ Manifest_relations(manifest)
           = <<RelationExpr(<<ResourceRef(s_file, t_a)>>,
                            <<ResourceRef(s_foo_bar, <<Variable(<<"x">>)>>)>>,
                            "Subscribe")>>

(***************************************************************************)
(* The places of the expressions of a text in its Manifest.                *)
(***************************************************************************)
\* the number of expressions a pair of the text stands for: a declaration is
\* one, a chain of k groups is k-1
ExpressionsOf(pair) == IF pair.rule = "resource" THEN 1 ELSE ChainLength(pair) - 1

\* the number of expressions of the pairs before place p
RECURSIVE ExpressionsBefore(_, _)
ExpressionsBefore(t, p) ==
    IF p <= 1 THEN 0 ELSE ExpressionsBefore(t, p - 1) + ExpressionsOf(t[p - 1])

\* the places of the expressions of m that are of this kind, in rising order
RECURSIVE PlacesOfKind(_, _, _)
PlacesOfKind(m, kind, i) ==
    IF i > Len(m) THEN <<>>
    ELSE (IF m[i].kind = kind THEN <<i>> ELSE <<>>) \o PlacesOfKind(m, kind, i + 1)

(***************************************************************************)
(* C22: the Manifest lists the expressions in the order of the text: the   *)
(* expression of a declaration and the k-1 statements of a chain, these    *)
(* next to each other and from left to right, stand at the place of their  *)
(* declaration or chain; resources() and relations() return the            *)
(* expressions of their kind in that same order, and every expression is   *)
(* in exactly one of the two.                                              *)
(***************************************************************************)
C22_SourceOrderKept ==
    /\ (Parsed /\ err = None) =>
           /\ Len(manifest) = ExpressionsBefore(text, Len(text) + 1)
           /\ \A p \in 1..Len(text) :
                  LET base == ExpressionsBefore(text, p) IN
                  IF text[p].rule = "resource"
                  THEN /\ manifest[base + 1].kind = "Resource"
                       /\ manifest[base + 1].rtype = to_lowercase(text[p].rtype)
                       /\ manifest[base + 1].title = WrittenSegments(text[p].title)
                  ELSE \A i \in 1..(ChainLength(text[p]) - 1) :
                           /\ manifest[base + i].kind = "Relation"
                           /\ StoredAsWritten(manifest[base + i].from, ChainGroup(text[p], i))
                           /\ StoredAsWritten(manifest[base + i].to, ChainGroup(text[p], i + 1))
                           /\ manifest[base + i].op = RelationOp_from_str(ChainOp(text[p], i))
    /\ LET res == PlacesOfKind(manifest, "Resource", 1)
           rel == PlacesOfKind(manifest, "Relation", 1)
       IN  /\ Manifest_resources(manifest) = [i \in 1..Len(res) |-> manifest[res[i]]]
           /\ Manifest_relations(manifest) = [i \in 1..Len(rel) |-> manifest[rel[i]]]
           /\ Range(res) \cup Range(rel) = 1..Len(manifest)
           /\ Range(res) \cap Range(rel) = {}

\* a declaration, a chain of three groups and a second declaration were parsed
\* into a Resource, two Relations and a Resource
C22_Witness ==
    /\ Parsed
    /\ pc = "nodes"
    /\ Len(text) = 3
    /\ text[2].rule = "relation"
    /\ ChainLength(text[2]) = 3
    /\ [i \in 1..Len(manifest) |-> manifest[i].kind]
           = <<"Resource", "Relation", "Relation", "Resource">>
    /\ manifest[2].to = manifest[3].from
    /\ manifest[2].from # manifest[3].to

(***************************************************************************)
(* C23: a relation between a resource and itself, A -> A or a relation     *)
(* between lists whose two sides share a member, is rejected as a cycle:   *)
(* the build of a manifest with such a relation returns an error, the      *)
(* cycle error when the types and the references of the manifest are       *)
(* known, and no Plan with an edge from a node to itself is returned.      *)
(***************************************************************************)
\* some relation of m has a reference of one id on both of its sides
SelfRelated(m) ==
    \E r \in Range(Manifest_relations(m)) :
        \E x \in Range(r.from) : \E y \in Range(r.to) :
            ResourceRef_id(x) = ResourceRef_id(y)

C23_SelfRelationRejected ==
    /\ SelfRelated(manifest) =>
           /\ plan = None
           /\ pc \notin {"built", "sorted"}
           /\ pc = "error" => err # None
           /\ (/\ pc = "error"
               /\ Unregistered(manifest) = <<>>
               /\ \A r \in Range(scanned_refs(manifest)) :
                      ResourceRef_id(r) \in DOMAIN resource_nodes) => CycleError
    /\ \A k \in 1..Len(edges) : edges[k].src # edges[k].dst
    /\ plan # None =>
           \A k \in 1..Len(plan[1].edges) : plan[1].edges[k].src # plan[1].edges[k].dst

\* [A, B] -> [C, B]: after the edges A -> C, A -> B and B -> C the pair B, B
\* was rejected
C23_Witness ==
    /\ CycleError
    /\ err[1].from = err[1].to
    /\ Len(Manifest_relations(manifest)) = 1
    /\ Manifest_relations(manifest)[1].op = "Provide"
    /\ Len(Manifest_relations(manifest)[1].from) = 2
    /\ Len(edges) = 3
    /\ plan = None

(***************************************************************************)
(* C24: edges are never deduplicated: a built plan has as many edges as    *)
(* the sum over its Relation statements of |from| * |to|, one for every    *)
(* pair in its turn, so a pair stated twice, or once with -> and once with *)
(* ~>, gives two parallel edges between the same two nodes; such a plan is *)
(* returned all the same and sorted with Ok.                               *)
(***************************************************************************)
\* the edges of es that lead from node a to node b
ParallelEdges(es, a, b) == {k \in 1..Len(es) : es[k].src = a /\ es[k].dst = b}

C24_EdgesNotDeduplicated ==
    plan # None =>
        LET rels == Manifest_relations(manifest)
            pairs == DirectedPairs(rels)
            es == plan[1].edges
        IN  /\ Len(es) = EdgesBefore(rels, Len(rels) + 1)
            /\ Len(es) = Len(pairs)
            /\ \A k \in 1..Len(es) :
                   es[k].src = NodeOf(pairs[k][1]) /\ es[k].dst = NodeOf(pairs[k][2])
            /\ \A a \in 1..Len(plan[1].nodes) : \A b \in 1..Len(plan[1].nodes) :
                   Cardinality(ParallelEdges(es, a, b))
                       = Cardinality({k \in 1..Len(pairs) :
                                         NodeOf(pairs[k][1]) = a /\ NodeOf(pairs[k][2]) = b})
            /\ order # None => order[1].ok /\ Len(order[1].order) = Len(plan[1].nodes)

\* A -> B and A ~> B: the plan has a Provide and a Notify edge from the first
\* node to the second, and was sorted
C24_Witness ==
    /\ pc = "sorted"
    /\ order[1].ok
    /\ Len(Manifest_relations(manifest)) = 2
    /\ plan[1].edges = <<Edge(1, 2, "Provide"), Edge(1, 2, "Notify")>>
    /\ Cardinality(ParallelEdges(plan[1].edges, 1, 2)) = 2

(***************************************************************************)
(* C25: for every built Plan, Plan::sorted_weights returns Ok with exactly *)
(* one entry for each node of the graph, the keys in the order of the      *)
(* sequence Plan::sorted returns, each key with the resource stored at     *)
(* that node index; neither call changes the nodes or the edges of the     *)
(* plan.                                                                   *)
(***************************************************************************)
C25_SortedWeightsFollowSorted ==
    /\ weights # None =>
           LET ws == weights[1].weights
               n == Len(plan[1].nodes)
           IN  /\ weights[1].ok
               /\ Len(ws) = n
               /\ \A v \in 1..n : Cardinality({i \in 1..Len(ws) : ws[i].key = v}) = 1
               /\ \A i \in 1..Len(ws) : ws[i].value = plan[1].nodes[ws[i].key]
               /\ order # None => [i \in 1..Len(ws) |-> ws[i].key] = order[1].order
    /\ (weights # None \/ order # None) =>
           plan[1] = [nodes |-> nodes, edges |-> edges]
    /\ plan # None =>
           /\ Len(plan[1].nodes) = Len(Manifest_resources(manifest))
           /\ Len(plan[1].edges)
                  = EdgesBefore(Manifest_relations(manifest),
                                Len(Manifest_relations(manifest)) + 1)

\* three nodes and the edge 3 -> 1: both calls were made, the keys are 2, 3, 1
\* and the first entry is the resource of the second node
C25_Witness ==
    /\ weights # None
    /\ order # None
    /\ plan[1].edges = <<Edge(3, 1, "Provide")>>
    /\ [i \in 1..3 |-> weights[1].weights[i].key] = <<2, 3, 1>>
    /\ weights[1].weights[1].value = plan[1].nodes[2]
    /\ plan[1].nodes[2] # plan[1].nodes[1]

====
